---------------------------- MODULE Spec2Model ----------------------------
(***************************************************************************)
(* A model of app_gtf.py: the GTF coordinate calculator (the two geometry  *)
(* functions) and the experiment log kept in data.xlsx together with the   *)
(* Streamlit session state of the "Past Experiments" dialog.               *)
(*                                                                         *)
(* Numbers.  The program computes with floats.  The model computes with    *)
(* integers (millimetres) on a grid of inputs on which every division and  *)
(* every product with a sine or cosine is exact: the angles are those      *)
(* whose sine and cosine are multiples of 1/5 (the 3-4-5 triangle), and    *)
(* z_gtf - z is a multiple of 60.  GridExact states the exactness.         *)
(***************************************************************************)
EXTENDS Integers, Sequences, FiniteSets, TLC

VARIABLES
    inputs,         \* the number_input widgets: x_gtf, y_gtf, z_gtf, arc_deg, collar_deg
    results,        \* compute_coordinates(...) of the last script run
    results1,       \* compute_with_angles(...) of the last script run
    file,           \* data.xlsx
    clock,          \* the instant of the last datetime.now()
    session_state,  \* st.session_state of the browser session; a key not yet
                    \* set is held as False (lines 336, 399 and 454 read it
                    \* so) or as the empty list (line 474 makes it anew)
    checkbox,       \* the widget states of the keys checkbox_0, checkbox_1, ...
    dialog,         \* the "Past Experiments" dialog as last rendered
    last            \* the last handler run: its name, its message, its local values

vars == <<inputs, results, results1, file, clock, session_state, checkbox, dialog, last>>

geoVars == <<inputs, results, results1>>
logVars == <<file, clock, session_state, checkbox, dialog, last>>

(***************************************************************************)
(* Geometry Engine                                                         *)
(***************************************************************************)

\* Fixed z value for M1 Frame and the initial distance.
Z_M1 == 100
D_0 == 55

\* The angles of the grid, by their degrees rounded to a whole number; sn/dn
\* and cs/dn are the exact sine and cosine (math.sin(math.radians(a)),
\* math.cos(math.radians(a))).
Angles ==
    { [deg |-> 0,   sn |-> 0, cs |-> 5,  dn |-> 5],
      [deg |-> 37,  sn |-> 3, cs |-> 4,  dn |-> 5],
      [deg |-> 53,  sn |-> 4, cs |-> 3,  dn |-> 5],
      [deg |-> 90,  sn |-> 5, cs |-> 0,  dn |-> 5],
      [deg |-> 127, sn |-> 4, cs |-> -3, dn |-> 5],
      [deg |-> 143, sn |-> 3, cs |-> -4, dn |-> 5] }

XGrid == {-20, 100, 140}
YGrid == {0, 100, 140}
ZGrid == {40, 100, 160}

GeoInputs ==
    [x_gtf : XGrid, y_gtf : YGrid, z_gtf : ZGrid, arc_deg : Angles, collar_deg : Angles]

\* a / b for b # 0, with the sign carried by the numerator
Quot(a, b) == IF b > 0 THEN a \div b ELSE (-a) \div (-b)

\* v / math.sin(ang), v * math.cos(ang), v * math.sin(ang)
DivSin(v, ang) == Quot(v * ang.dn, ang.sn)
MulCos(v, ang) == (v * ang.cs) \div ang.dn
MulSin(v, ang) == (v * ang.sn) \div ang.dn

\* An angle reported in degrees: the input angle itself, or
\* math.degrees(math.acos(n / d)).
Degrees(a) == [kind |-> "deg", n |-> a.deg, d |-> 1]
AcosDegrees(n, d) == [kind |-> "acos", n |-> n, d |-> d]
NoAngle == [kind |-> "none", n |-> 0, d |-> 1]

\* What math.acos(n / d) does: "ZeroDivisionError" (float division by zero),
\* "ValueError" (math domain error) or "none" (a value).
AcosError_no_domain(n, d) == IF d = 0 THEN "ZeroDivisionError" ELSE "none"

AcosError(n, d) ==
    IF d = 0 THEN "ZeroDivisionError"
    ELSE IF n * n > d * d THEN "ValueError"
    ELSE "none"

Raised(e) ==
    [err |-> e, x |-> 0, y |-> 0, z |-> 0, D |-> 0, L |-> 0,
     ARC |-> NoAngle, COLLAR |-> NoAngle]

NotRun == Raised("not run")

compute_coordinates(x_gtf, y_gtf, z_gtf, arc_deg, collar_deg, z, d_0) ==
    IF collar_deg.sn = 0
    THEN Raised("ZeroDivisionError")
    ELSE
      LET D       == d_0 - DivSin(z_gtf - z, collar_deg)
          delta_D == d_0 - D
          x_new   == x_gtf - MulCos(delta_D, arc_deg)
          y_new   == y_gtf + MulCos(delta_D, collar_deg)
          z_new   == z_gtf - MulSin(delta_D, collar_deg)
      IN  [err |-> "none", x |-> x_new, y |-> y_new, z |-> z_new, D |-> D,
           L |-> 205 - D, ARC |-> NoAngle, COLLAR |-> NoAngle]

\* The output envelope of x: lines 64-69 without the recomputation of the arc.
clamp_x_upper100(x_0) == IF x_0 < 50 THEN 50 ELSE IF x_0 > 100 THEN 100 ELSE x_0

clamp_x(x_0) == IF x_0 < 50 THEN 50 ELSE IF x_0 > 150 THEN 150 ELSE x_0

\* The output envelope of y: lines 72-77 without the recomputation of the collar.
clamp_y_no_lower(y_0) == IF y_0 > 170 THEN 170 ELSE y_0

clamp_y(y_0) == IF y_0 < 70 THEN 70 ELSE IF y_0 > 170 THEN 170 ELSE y_0

compute_with_angles(x_gtf, y_gtf, z_gtf, arc_deg, collar_deg, z, d_0) ==
    IF collar_deg.sn = 0
    THEN Raised("ZeroDivisionError")
    ELSE
      LET D       == d_0 - DivSin(z_gtf - z, collar_deg)
          delta_D == d_0 - D
          x_0     == x_gtf - MulCos(delta_D, arc_deg)
          x_new   == clamp_x(x_0)
          x_err   == IF x_new # x_0 THEN AcosError(x_gtf - x_new, delta_D) ELSE "none"
          arc1    == IF x_new # x_0 THEN AcosDegrees(x_gtf - x_new, delta_D)
                                    ELSE Degrees(arc_deg)
          y_0     == y_gtf + MulCos(delta_D, collar_deg)
          y_new   == clamp_y(y_0)
          y_err   == IF y_new # y_0 THEN AcosError(y_new - y_gtf, delta_D) ELSE "none"
          collar1 == IF y_new # y_0 THEN AcosDegrees(y_new - y_gtf, delta_D)
                                    ELSE Degrees(collar_deg)
          z_new   == z_gtf - MulSin(delta_D, collar_deg)
      IN  IF x_err # "none" THEN Raised(x_err)
          ELSE IF y_err # "none" THEN Raised(y_err)
          ELSE [err |-> "none", x |-> x_new, y |-> y_new, z |-> z_new, D |-> D,
                L |-> 205 - D, ARC |-> arc1, COLLAR |-> collar1]


(***************************************************************************)
(* Experiment log: the values                                              *)
(***************************************************************************)

\* The most rows data.xlsx holds in the model: Record Result is not taken
\* beyond it.
MaxRows == 3

\* A string of digits and punctuation is the sequence of its characters, each
\* the distance of its code from that of '0': '0'..'9' are 0..9, ':' is 10 and
\* '-' is -3.  Python and pandas compare strings by these codes.
Colon == 10
Dash == -3

TwoDigits(n) == <<n \div 10, n % 10>>
FourDigits(n) == <<n \div 1000, (n \div 100) % 10, (n \div 10) % 10, n % 10>>

\* datetime.now(pytz.timezone('America/Chicago')) at successive instants: the
\* wall clock of Chicago around the end of daylight saving time in 2025, when
\* 01:30:00 CDT is followed, half an hour later, by 01:00:00 CST.
Instants ==
    << [Y |-> 2025, m |-> 11, d |-> 1, H |-> 23, M |-> 59, S |-> 59],
       [Y |-> 2025, m |-> 11, d |-> 2, H |-> 1,  M |-> 30, S |-> 0],
       [Y |-> 2025, m |-> 11, d |-> 2, H |-> 1,  M |-> 0,  S |-> 0] >>

\* now.strftime('%Y-%m-%d') and now.strftime('%H:%M:%S')
strftime_date(now) ==
    FourDigits(now.Y) \o <<Dash>> \o TwoDigits(now.m) \o <<Dash>> \o TwoDigits(now.d)

strftime_time(now) ==
    TwoDigits(now.H) \o <<Colon>> \o TwoDigits(now.M) \o <<Colon>> \o TwoDigits(now.S)

\* pd.to_datetime of one cell of the Date column: a 'YYYY-MM-DD' string is
\* parsed to the Timestamp <<year, month, day>>, a Timestamp stays.
to_datetime_cell(v) ==
    IF Len(v) = 10
    THEN << v[1] * 1000 + v[2] * 100 + v[3] * 10 + v[4], v[6] * 10 + v[7],
            v[9] * 10 + v[10] >>
    ELSE v

\* a < b for two sequences of integers, lexicographically
LexLess(a, b) ==
    \/ \E i \in 1..Len(a) :
          /\ i <= Len(b)
          /\ a[i] < b[i]
          /\ \A j \in 1..(i - 1) : a[j] = b[j]
    \/ /\ Len(a) < Len(b)
       /\ \A j \in 1..Len(a) : a[j] = b[j]

\* The comments typed in the model.
Comments == {"", "ok", "NA"}

\* The float nan of a cell pandas reads as missing.
NaN == "float('nan')"

\* Some of the strings pd.read_excel reads as missing (keep_default_na=True).
NaValues == {"", "NA", "N/A", "NaN", "nan", "null", "NULL", "None"}

Columns ==
    <<"Date", "Time", "Updated X", "Updated Y", "M1 Z", "D", "Distance to Target",
      "Comment">>

\* data.xlsx: absent, a workbook (its header row and its rows), or what an
\* interrupted df.to_excel leaves (the file opened for writing and not
\* completed).
Absent == [kind |-> "absent", columns |-> <<>>, rows |-> <<>>]
Torn == [kind |-> "torn", columns |-> <<>>, rows |-> <<>>]

DataFrame(columns, rows) == [columns |-> columns, rows |-> rows]

(***************************************************************************)
(* Experiment log: pandas                                                  *)
(***************************************************************************)

\* pd.read_excel(excel_file): the cells as written, the strings of NaValues
\* read as NaN.
read_excel(f) ==
    DataFrame(f.columns,
              [i \in 1..Len(f.rows) |->
                  [f.rows[i] EXCEPT !.Comment = IF @ \in NaValues THEN NaN ELSE @]])

\* df.fillna('')
fillna(df) ==
    DataFrame(df.columns,
              [i \in 1..Len(df.rows) |->
                  [df.rows[i] EXCEPT !.Comment = IF @ = NaN THEN "" ELSE @]])

\* df['Date'] = pd.to_datetime(df['Date'])
to_datetime(df) ==
    DataFrame(df.columns,
              [i \in 1..Len(df.rows) |->
                  [df.rows[i] EXCEPT !.Date = to_datetime_cell(@)]])

\* (Date, Time) of a is greater than or equal to that of b
KeyGeq(a, b) ==
    \/ LexLess(b.Date, a.Date)
    \/ a.Date = b.Date /\ ~ LexLess(a.Time, b.Time)

\* One row put into rows sorted in descending order, behind the rows that are
\* greater or equal (the sort is stable).
InsertDesc(rows, r) ==
    LET p == Cardinality({i \in 1..Len(rows) : KeyGeq(rows[i], r)})
    IN  SubSeq(rows, 1, p) \o <<r>> \o SubSeq(rows, p + 1, Len(rows))

RECURSIVE SortDesc(_)
SortDesc(rows) ==
    IF rows = <<>> THEN <<>>
    ELSE InsertDesc(SortDesc(SubSeq(rows, 1, Len(rows) - 1)), rows[Len(rows)])

\* df.sort_values(by=['Date', 'Time'], ascending=[False, False]).reset_index(drop=True)
sort_values_not_sorted(df) == df

sort_values(df) == DataFrame(df.columns, SortDesc(df.rows))

\* pd.concat([df, pd.DataFrame([new_data])], ignore_index=True)
concat(df, new_data) ==
    DataFrame(IF df.columns = <<>> THEN Columns ELSE df.columns, Append(df.rows, new_data))

\* df.drop(selected_indices).reset_index(drop=True); the positions are those
\* of Python plus one.
drop_first_rows(df, selected_indices) ==
    DataFrame(df.columns,
              SubSeq(df.rows, Cardinality(selected_indices) + 1, Len(df.rows)))

drop(df, selected_indices) ==
    LET kept == SelectSeq([i \in 1..Len(df.rows) |-> i],
                          LAMBDA i : i \notin selected_indices)
    IN  DataFrame(df.columns, [k \in 1..Len(kept) |-> df.rows[kept[k]]])


(***************************************************************************)
(* Experiment log: the handlers of the script                              *)
(***************************************************************************)

\* df.to_excel(excel_file, index=False), as it ends: "ok" (written), "denied"
\* (the file could not be opened for writing: it is as before) or "torn" (the
\* file was opened, which empties it, and the write did not complete).
to_excel(f, df, io) ==
    CASE io = "ok"     -> [kind |-> "xlsx", columns |-> df.columns, rows |-> df.rows]
      [] io = "denied" -> f
      [] io = "torn"   -> Torn

\* os.path.exists(excel_file)
exists(f) == f.kind # "absent"

\* Lines 402-410 of show_experiments: the table the dialog shows.
load_and_sort(f) == sort_values(to_datetime(fillna(read_excel(f))))

\* listAll(): the rows of the table, none when there is no data file.
listAll(f) == IF f.kind = "xlsx" THEN load_and_sort(f).rows ELSE <<>>

\* Lines 352-361: the row of a result recorded at `now`.
new_data_of(now, res, comment) ==
    [Date |-> strftime_date(now), Time |-> strftime_time(now),
     UpdatedX |-> res.x, UpdatedY |-> res.y, M1Z |-> res.z, D |-> res.D,
     DistanceToTarget |-> res.L,
     Comment |-> IF comment # "" THEN comment ELSE ""]

\* Lines 365-380: the table Record Result saves.
record_table(f, new_data) ==
    LET df == IF exists(f) THEN concat(read_excel(f), new_data)
              ELSE DataFrame(Columns, <<new_data>>)
    IN  fillna(sort_values(to_datetime(df)))

\* Lines 435-440: the table Delete Selected saves.
delete_table(df, selected_indices) ==
    fillna(sort_values(to_datetime(drop(df, selected_indices))))

\* Line 460: pd.DataFrame(columns=df.columns)
empty_table_no_columns(df) == DataFrame(<<>>, <<>>)

empty_table(df) == DataFrame(df.columns, <<>>)

\* Line 433: the positions whose flag is set.
selected_indices_of_every_row(selected_experiments) ==
    1..Len(selected_experiments)

selected_indices_of(selected_experiments) ==
    {i \in 1..Len(selected_experiments) : selected_experiments[i]}

AllFalse(n) == [i \in 1..n |-> FALSE]

\* What a script run reports: the handler, its message (st.success,
\* st.warning), the count in the message, the exception that ended the run,
\* and whether df.to_excel was called.
Report(op, msg, n, err, wrote) ==
    [op |-> op, msg |-> msg, n |-> n, err |-> err, wrote |-> wrote]

\* The dialog: whether it is open, whether its last run reached its end (all
\* its buttons and the table are shown), and the table shown.
Closed == [open |-> FALSE, complete |-> FALSE, columns |-> <<>>, rows |-> <<>>]
Broken == [open |-> TRUE, complete |-> FALSE, columns |-> <<>>, rows |-> <<>>]

\* Lines 471-500 of a run of show_experiments that reaches them, the user
\* having clicked the checkboxes of `clicked`: the flags are made anew when
\* their number is not that of the rows, each checkbox returns its widget
\* state (that of its key, the clicked ones flipped) or, a new widget, its
\* value argument, and the flag takes what the checkbox returns.
render(ss, cbx, df, clicked) ==
    LET n     == Len(df.rows)
        sel0  == IF Len(ss.selected_experiments) # n
                 THEN AllFalse(n) ELSE ss.selected_experiments
    IN  [i \in 1..n |->
            IF i <= Len(cbx) THEN (IF i \in clicked THEN ~ cbx[i] ELSE cbx[i])
            ELSE sel0[i]]

\* A run of show_experiments that reaches its end.
Rendered(ss, df, clicked) ==
    LET flags == render(ss, checkbox, df, clicked)
    IN  /\ session_state' = [ss EXCEPT !.selected_experiments = flags]
        /\ checkbox' = flags
        /\ dialog' = [open |-> TRUE, complete |-> TRUE, columns |-> df.columns,
                      rows |-> df.rows]

\* A run of show_experiments that pd.read_excel ends by an exception.
ReadFails(op) ==
    /\ last' = Report(op, "none", 0, "BadZipFile", FALSE)
    /\ UNCHANGED <<file, clock, session_state, checkbox, dialog>>


\* The script run reached the buttons: neither line 205 nor line 206 raised.
ButtonsShown == results.err = "none" /\ results1.err = "none"

\* Record Result (lines 346-388) and the rerun it asks for (lines 336-338).
RecordResult(io) ==
    /\ ~ dialog.open
    /\ ButtonsShown
    /\ Len(file.rows) < MaxRows
    /\ \E t \in clock..Len(Instants) :
          LET new_data == new_data_of(Instants[t], results, session_state.comment_input)
          IN  /\ clock' = t
              /\ checkbox' = <<>>
              /\ dialog' = dialog
              /\ IF file.kind = "torn"
                 THEN /\ last' = Report("record", "none", 0, "BadZipFile", FALSE)
                      /\ UNCHANGED <<file, session_state>>
                 ELSE /\ file' = to_excel(file, record_table(file, new_data), io)
                      /\ IF io = "ok"
                         THEN /\ last' = Report("record", "recorded", 0, "none", TRUE)
                              /\ session_state' =
                                   [session_state EXCEPT
                                      !.clear_comment = FALSE,
                                      !.comment_input = ""]
                         ELSE /\ last' = Report("record", "none", 0, "OSError", TRUE)
                              /\ UNCHANGED session_state
    /\ UNCHANGED geoVars

\* Show Past Experiments (lines 391-396) and, in the same run, the dialog
\* (lines 399-506).
ShowPastExperiments ==
    /\ ~ dialog.open
    /\ ButtonsShown
    /\ IF ~ exists(file)
       THEN /\ last' = Report("show", "no past experiments", 0, "none", FALSE)
            /\ checkbox' = <<>>
            /\ UNCHANGED <<file, clock, session_state, dialog>>
       ELSE IF file.kind = "torn"
       THEN /\ last' = Report("show", "none", 0, "BadZipFile", FALSE)
            /\ session_state' = [session_state EXCEPT !.show_modal = TRUE]
            /\ checkbox' = <<>>
            /\ UNCHANGED <<file, clock, dialog>>
       ELSE /\ Rendered([session_state EXCEPT !.show_modal = FALSE],
                        load_and_sort(file), {})
            /\ last' = Report("show", "none", 0, "none", FALSE)
            /\ UNCHANGED <<file, clock>>
    /\ UNCHANGED geoVars

\* The comment box is edited (line 341): a run of the whole script, in which
\* the dialog is not shown.
EditComment(c) ==
    /\ ~ dialog.open
    /\ ButtonsShown
    /\ c # session_state.comment_input
    /\ session_state' = [session_state EXCEPT !.comment_input = c]
    /\ checkbox' = <<>>
    /\ last' = Report("comment", "none", 0, "none", FALSE)
    /\ UNCHANGED <<file, clock, dialog>>
    /\ UNCHANGED geoVars

\* The checkbox of row i is clicked (lines 489-497): a run of the dialog.
ToggleCheckbox(i) ==
    /\ dialog.open
    /\ dialog.complete
    /\ i \in 1..Len(dialog.rows)
    /\ IF file.kind # "xlsx"
       THEN ReadFails("toggle")
       ELSE /\ Rendered(session_state, load_and_sort(file), {i})
            /\ last' = Report("toggle", "none", 0, "none", FALSE)
            /\ UNCHANGED <<file, clock>>
    /\ UNCHANGED geoVars

\* Delete Selected (lines 431-447): a run of the dialog.
DeleteSelected(io) ==
    /\ dialog.open
    /\ IF file.kind # "xlsx"
       THEN ReadFails("delete")
       ELSE
         LET df == load_and_sort(file)
             selected_indices == selected_indices_of(session_state.selected_experiments)
             df_updated == delete_table(df, selected_indices)
         IN  IF selected_indices = {}
             THEN /\ last' = Report("delete", "select rows", 0, "none", FALSE)
                  /\ Rendered(session_state, df, {})
                  /\ UNCHANGED <<file, clock>>
             ELSE IF \E i \in selected_indices : i > Len(df.rows)
             THEN /\ last' = Report("delete", "none", 0, "KeyError", FALSE)
                  /\ dialog' = Broken
                  /\ checkbox' = <<>>
                  /\ UNCHANGED <<file, clock, session_state>>
             ELSE /\ file' = to_excel(file, df_updated, io)
                  /\ checkbox' = <<>>
                  /\ clock' = clock
                  /\ IF io = "ok"
                     THEN /\ last' = Report("delete", "deleted",
                                            Cardinality(selected_indices), "none", TRUE)
                          /\ session_state' =
                               [session_state EXCEPT
                                  !.selected_experiments = AllFalse(Len(df_updated.rows))]
                          /\ dialog' = Closed
                     ELSE /\ last' = Report("delete", "none", 0, "OSError", TRUE)
                          /\ dialog' = Broken
                          /\ UNCHANGED session_state
    /\ UNCHANGED geoVars

\* Clear All (lines 450-451): a run of the dialog, which then shows the
\* confirmation.
ClearAll ==
    /\ dialog.open
    /\ dialog.complete
    /\ IF file.kind # "xlsx"
       THEN ReadFails("clear all")
       ELSE /\ Rendered([session_state EXCEPT !.confirm_clear = TRUE],
                        load_and_sort(file), {})
            /\ last' = Report("clear all", "are you sure", 0, "none", FALSE)
            /\ UNCHANGED <<file, clock>>
    /\ UNCHANGED geoVars

\* The confirmation is shown: the last run of the dialog passed line 454.
ConfirmationShown ==
    /\ dialog.open
    /\ dialog.complete
    /\ session_state.confirm_clear

\* Yes, delete all (lines 458-465).
YesDeleteAll(io) ==
    /\ ConfirmationShown
    /\ IF file.kind # "xlsx"
       THEN ReadFails("yes, delete all")
       ELSE /\ file' = to_excel(file, empty_table(load_and_sort(file)), io)
            /\ checkbox' = <<>>
            /\ clock' = clock
            /\ IF io = "ok"
               THEN /\ last' = Report("yes, delete all", "cleared", 0, "none", TRUE)
                    /\ session_state' = [session_state EXCEPT
                                           !.confirm_clear = FALSE,
                                           !.selected_experiments = <<>>]
                    /\ dialog' = Closed
               ELSE /\ last' = Report("yes, delete all", "none", 0, "OSError", TRUE)
                    /\ dialog' = Broken
                    /\ UNCHANGED session_state
    /\ UNCHANGED geoVars

\* Cancel (lines 467-469).
Cancel ==
    /\ ConfirmationShown
    /\ IF file.kind # "xlsx"
       THEN ReadFails("cancel")
       ELSE /\ session_state' = [session_state EXCEPT !.confirm_clear = FALSE]
            /\ checkbox' = <<>>
            /\ dialog' = Closed
            /\ last' = Report("cancel", "none", 0, "none", FALSE)
            /\ UNCHANGED <<file, clock>>
    /\ UNCHANGED geoVars

\* The dialog is closed by its X or by a click outside it: no run of the
\* script.
Dismiss ==
    /\ dialog.open
    /\ dialog' = Closed
    /\ last' = Report("dismiss", "none", 0, "none", FALSE)
    /\ UNCHANGED <<file, clock, session_state, checkbox>>
    /\ UNCHANGED geoVars

\* Record Result in another browser session of the app: st.session_state is
\* that session's own, data.xlsx is the one file of the server.
OtherSessionRecords ==
    /\ file.kind # "torn"
    /\ Len(file.rows) < MaxRows
    /\ \E t \in clock..Len(Instants), c \in Comments :
          /\ clock' = t
          /\ file' = to_excel(file, record_table(file, new_data_of(Instants[t], results, c)),
                              "ok")
    /\ UNCHANGED <<session_state, checkbox, dialog, last>>
    /\ UNCHANGED geoVars

(***************************************************************************)
(* The script runs of the calculator                                       *)
(***************************************************************************)

\* Lines 205-206: results1 is not computed when line 205 raises.
Computed(inp) ==
    LET r == compute_coordinates(inp.x_gtf, inp.y_gtf, inp.z_gtf, inp.arc_deg,
                                 inp.collar_deg, Z_M1, D_0)
    IN  /\ results' = r
        /\ results1' = IF r.err # "none" THEN NotRun
                       ELSE compute_with_angles(inp.x_gtf, inp.y_gtf, inp.z_gtf,
                                                inp.arc_deg, inp.collar_deg, Z_M1, D_0)

\* Recalculate (line 197): a run of the script with the inputs as they are.
Recalculate ==
    /\ results.err = "not run"
    /\ Computed(inputs)
    /\ UNCHANGED <<inputs, logVars>>

\* A number_input is edited (lines 178-192): a run with the new inputs.
NumberInput(inp) ==
    /\ results.err # "not run"
    /\ inp # inputs
    /\ inputs' = inp
    /\ Computed(inp)
    /\ UNCHANGED logVars

(***************************************************************************)
(* Specifications                                                          *)
(***************************************************************************)

LogStart ==
    /\ file = Absent
    /\ clock = 1
    /\ session_state = [show_modal |-> FALSE, confirm_clear |-> FALSE,
                        selected_experiments |-> <<>>, clear_comment |-> FALSE,
                        comment_input |-> ""]
    /\ checkbox = <<>>
    /\ dialog = Closed
    /\ last = Report("start", "none", 0, "none", FALSE)

\* The inputs of the results the log records.
RecordedInputs ==
    [x_gtf |-> 140, y_gtf |-> 140, z_gtf |-> 40,
     arc_deg |-> CHOOSE a \in Angles : a.deg = 90,
     collar_deg |-> CHOOSE a \in Angles : a.deg = 53]

\* The log: the first run of the script has computed the results.
Init ==
    /\ inputs = RecordedInputs
    /\ results = compute_coordinates(inputs.x_gtf, inputs.y_gtf, inputs.z_gtf,
                                     inputs.arc_deg, inputs.collar_deg, Z_M1, D_0)
    /\ results1 = compute_with_angles(inputs.x_gtf, inputs.y_gtf, inputs.z_gtf,
                                      inputs.arc_deg, inputs.collar_deg, Z_M1, D_0)
    /\ LogStart

Next ==
    \/ RecordResult("ok")
    \/ ShowPastExperiments
    \/ \E c \in Comments : EditComment(c)
    \/ \E i \in 1..MaxRows : ToggleCheckbox(i)
    \/ DeleteSelected("ok")
    \/ ClearAll
    \/ YesDeleteAll("ok")
    \/ Cancel
    \/ Dismiss

Spec == Init /\ [][Next]_vars

\* The log with a second browser session recording results.
NextShared == Next \/ OtherSessionRecords

SpecShared == Init /\ [][NextShared]_vars

\* The log with writes that fail.
IO == {"ok", "denied", "torn"}

NextFail ==
    \/ \E io \in IO : RecordResult(io)
    \/ ShowPastExperiments
    \/ \E c \in Comments : EditComment(c)
    \/ \E i \in 1..MaxRows : ToggleCheckbox(i)
    \/ \E io \in IO : DeleteSelected(io)
    \/ ClearAll
    \/ \E io \in IO : YesDeleteAll(io)
    \/ Cancel
    \/ Dismiss

SpecFail == Init /\ [][NextFail]_vars

\* The calculator alone: the inputs drawn from the grid.
InitGeo ==
    /\ inputs \in GeoInputs
    /\ results = NotRun
    /\ results1 = NotRun
    /\ LogStart

NextGeo ==
    \/ Recalculate
    \/ \E inp \in GeoInputs : NumberInput(inp)

SpecGeo == InitGeo /\ [][NextGeo]_vars

(***************************************************************************)
(* Properties of the calculator                                            *)
(***************************************************************************)

\* On the grid every quotient and product of the two functions is exact.
GridExact ==
    \A inp \in GeoInputs :
        inp.collar_deg.sn # 0 =>
            LET dz      == inp.z_gtf - Z_M1
                delta_D == DivSin(dz, inp.collar_deg)
            IN  /\ (dz * inp.collar_deg.dn) % inp.collar_deg.sn = 0
                /\ (delta_D * inp.arc_deg.cs) % inp.arc_deg.dn = 0
                /\ (delta_D * inp.collar_deg.cs) % inp.collar_deg.dn = 0
                /\ (delta_D * inp.collar_deg.sn) % inp.collar_deg.dn = 0

Abs(n) == IF n < 0 THEN -n ELSE n

\* The unclamped outputs lie in the envelope: x in [50, 150], y in [70, 170].
XInside == results.x >= 50 /\ results.x <= 150
YInside == results.y >= 70 /\ results.y <= 170

\* The bound an output outside the envelope is snapped to.
XBound == IF results.x < 50 THEN 50 ELSE 150
YBound == IF results.y < 70 THEN 70 ELSE 170

\* deltaD of the last run, and whether acos of the ratio n / deltaD fails.
DeltaD == D_0 - results.D
RatioFails(n) == DeltaD = 0 \/ Abs(n) > Abs(DeltaD)

\* C8: for inputs with sin(collar) # 0 whose unclamped x lies in [50, 150] and
\* unclamped y in [70, 170], compute_with_angles returns the x, y, z, D and L
\* of compute_coordinates, and reports the input arc and collar.
C8_AgreeWhenNotClamped ==
    (results.err = "none" /\ XInside /\ YInside) =>
        /\ results1.err = "none"
        /\ results1.x = results.x
        /\ results1.y = results.y
        /\ results1.z = results.z
        /\ results1.D = results.D
        /\ results1.L = results.L
        /\ results1.ARC = Degrees(inputs.arc_deg)
        /\ results1.COLLAR = Degrees(inputs.collar_deg)

C8_Witness ==
    /\ results.err = "none"
    /\ XInside /\ YInside
    /\ results1.err = "none"
    /\ DeltaD # 0
    /\ results.x # inputs.x_gtf
    /\ results.y # inputs.y_gtf

\* C9: whenever compute_with_angles returns a result, its x is in [50, 150] and
\* its y in [70, 170] (a value below the lower bound is the lower bound, one
\* above the upper bound the upper bound, one inside is unchanged), and its z,
\* D and L are those of compute_coordinates, also when x or y was clamped.
C9_ClampEnvelope ==
    results1.err = "none" =>
        /\ results1.x >= 50 /\ results1.x <= 150
        /\ results1.y >= 70 /\ results1.y <= 170
        /\ results1.x = (IF XInside THEN results.x ELSE XBound)
        /\ results1.y = (IF YInside THEN results.y ELSE YBound)
        /\ results1.z = results.z
        /\ results1.D = results.D
        /\ results1.L = results.L

C9_Witness ==
    /\ results1.err = "none"
    /\ results.x > 150
    /\ results.y < 70
    /\ results1.x = 150
    /\ results1.y = 70

\* C10: with sin(collar) # 0, compute_with_angles returns no result exactly
\* when x is clamped and deltaD = 0 or (input.x - x_clamped) / deltaD lies
\* outside [-1, 1], or y is clamped and deltaD = 0 or (y_clamped - input.y) /
\* deltaD lies outside [-1, 1]; a clamped coordinate of a returned result
\* carries the recomputed angle; with neither clamped there is no error.
C10_AcosDomainError ==
    results.err = "none" =>
        /\ results1.err # "none" <=>
              \/ ~ XInside /\ RatioFails(inputs.x_gtf - XBound)
              \/ ~ YInside /\ RatioFails(YBound - inputs.y_gtf)
        /\ results1.err \in {"none", "ZeroDivisionError", "ValueError"}
        /\ (results1.err = "none" /\ ~ XInside) =>
              results1.ARC = AcosDegrees(inputs.x_gtf - XBound, DeltaD)
        /\ (results1.err = "none" /\ ~ YInside) =>
              results1.COLLAR = AcosDegrees(YBound - inputs.y_gtf, DeltaD)
        /\ (XInside /\ YInside) => results1.err = "none"

C10_Witness ==
    /\ results.err = "none"
    /\ ~ XInside
    /\ DeltaD # 0
    /\ results1.err = "ValueError"

\* Further cases of C10, all reached on the grid: the division by deltaD = 0,
\* both coordinates clamped with their angles recomputed, and deltaD = 0 with
\* nothing clamped.
C10_CaseZeroDelta == results.err = "none" /\ ~ XInside /\ DeltaD = 0
C10_CaseRecomputed == results1.err = "none" /\ ~ XInside /\ ~ YInside
C10_CaseZeroDeltaInside == results.err = "none" /\ XInside /\ YInside /\ DeltaD = 0


(***************************************************************************)
(* Properties of the experiment log                                        *)
(***************************************************************************)

\* (Date, Time) of row a is greater than or equal to that of row b: the Date
\* first, a Timestamp <<year, month, day>>, then the Time, a string.
PairGeq(a, b) ==
    \/ a.Date = b.Date /\ (a.Time = b.Time \/ LexLess(b.Time, a.Time))
    \/ a.Date # b.Date /\ LexLess(b.Date, a.Date)

NonIncreasing(rows) ==
    \A i \in 1..(Len(rows) - 1) : PairGeq(rows[i], rows[i + 1])

\* The rows of a table without those at the positions of sel.
RECURSIVE Without(_, _, _)
Without(rows, sel, i) ==
    IF i > Len(rows) THEN <<>>
    ELSE (IF i \in sel THEN <<>> ELSE <<rows[i]>>) \o Without(rows, sel, i + 1)

\* The positions checked in the flags.
Checked(flags) == {i \in DOMAIN flags : flags[i]}

\* How often a row stands in a table.
CountIn(rows, r) == Cardinality({i \in 1..Len(rows) : rows[i] = r})

\* C1: after any sequence of Record Result, Delete Selected and confirmed
\* Clear All, the persisted collection and the table listed from it are
\* non-increasing in (Date, Time): each row's pair is greater than or equal to
\* that of the row after it.
C1_SortInvariant ==
    file.kind = "xlsx" =>
        /\ NonIncreasing(file.rows)
        /\ NonIncreasing(listAll(file))

C1_Witness ==
    /\ last.op = "delete"
    /\ last.msg = "deleted"
    /\ Len(file.rows) = 2
    /\ file.rows[1].Date # file.rows[2].Date
    /\ NonIncreasing(file.rows)

\* The step is a Delete Selected that deleted, a Delete Selected that found
\* nothing selected, a Record Result that recorded.
DeletedStep == dialog.open /\ last'.op = "delete" /\ last'.msg = "deleted"
EmptyDeleteStep ==
    /\ dialog.open
    /\ last'.op = "delete"
    /\ Checked(session_state.selected_experiments) = {}
RecordedStep == ~ dialog.open /\ last'.op = "record" /\ last'.msg = "recorded"

C3_EmptySelectionNoOp ==
    [][EmptyDeleteStep =>
          /\ file' = file
          /\ ~ last'.wrote
          /\ last'.n = 0
          /\ last'.msg = "select rows"
          /\ last'.err = "none"
          /\ session_state'.selected_experiments = session_state.selected_experiments
      ]_vars

C3_Witness ==
    /\ last.op = "delete"
    /\ last.msg = "select rows"
    /\ dialog.open
    /\ Len(file.rows) = 2
    /\ Checked(session_state.selected_experiments) = {}

\* C4: after Yes, delete all, whatever the collection held, the collection
\* lists zero rows and the persisted table has the columns it had (Date, Time,
\* Updated X, Updated Y, M1 Z, D, Distance to Target, Comment); the data file
\* exists, so Show Past Experiments then opens on an empty table and does not
\* report that there are no past experiments.
C4_ClearAllKeepsSchema ==
    /\ (last.op = "yes, delete all" /\ last.err = "none") =>
          /\ exists(file)
          /\ file.kind = "xlsx"
          /\ file.columns = Columns
          /\ listAll(file) = <<>>
    /\ (last.op = "show" /\ file.kind = "xlsx" /\ file.rows = <<>>) =>
          /\ last.msg # "no past experiments"
          /\ dialog.open
          /\ dialog.columns = Columns
          /\ dialog.rows = <<>>

C4_Witness ==
    /\ last.op = "yes, delete all"
    /\ last.msg = "cleared"
    /\ file.kind = "xlsx"
    /\ clock = Len(Instants)

\* The record r of a Record Result step: the date and time of the instant it
\* read, the results shown and the comment typed.
RecordedRow ==
    [Date |-> strftime_date(Instants[clock']), Time |-> strftime_time(Instants[clock']),
     UpdatedX |-> results.x, UpdatedY |-> results.y, M1Z |-> results.z, D |-> results.D,
     DistanceToTarget |-> results.L, Comment |-> session_state.comment_input]

\* The row of the listing that a recorded row r makes: its Date the calendar
\* date of r, everything else as in r.
Listed(r) == [r EXCEPT !.Date = to_datetime_cell(@)]

RoundTrip(before, after, r) ==
    /\ \E i \in 1..Len(after) : after[i] = Listed(r)
    /\ \A j \in 1..Len(before) : CountIn(after, before[j]) >= CountIn(before, before[j])
    /\ Len(after) = Len(before) + 1

\* C5: for every record r and every prior collection (no data file included),
\* after Record Result the listing holds a record equal to r in all fields
\* (a blank Comment as the empty string), every record listed before is still
\* listed, and there is exactly one row more, also when a row with the
\* (Date, Time) of r exists.
C5_AppendRoundTrip ==
    [][RecordedStep => RoundTrip(listAll(file), listAll(file'), RecordedRow)]_vars

\* The round trip of C5 holds when neither r nor a row already persisted has
\* a Comment that pd.read_excel reads as missing.
C5_RoundTripOfOtherComments ==
    [][(/\ RecordedStep
        /\ RecordedRow.Comment \notin (NaValues \ {""})
        /\ \A j \in 1..Len(file.rows) : file.rows[j].Comment \notin (NaValues \ {""}))
          => RoundTrip(listAll(file), listAll(file'), RecordedRow)]_vars

\* C6: a write of Record Result, Delete Selected or Yes, delete all that fails
\* or is interrupted leaves the complete prior version or the complete new
\* version of the persisted collection, never a partial or empty file.
C6_NeverTruncated ==
    [][(last'.wrote /\ last'.err # "none") => (file' = file /\ file'.kind # "torn")]_vars

\* C7: whenever the past-experiments view is opened, no clear-all confirmation
\* is pending and no row is selected.
C7_FlagsScopedToViewing ==
    (last.op = "show" /\ dialog.open) =>
        /\ ~ session_state.confirm_clear
        /\ Checked(session_state.selected_experiments) = {}

=============================================================================
